---- MODULE Spec2Model ----
(***************************************************************************)
(* Model of pipedrive_sync.py: one batch run of main() against a remote    *)
(* CRM, followed by further runs against the CRM state the earlier runs    *)
(* left behind; and of pipedrive_enrichment.py, the second script, one run *)
(* of its main() against the same kind of CRM.                             *)
(*                                                                         *)
(* Strings whose content the code inspects (emails, organization names,    *)
(* the rendered organization list) are sequences of one-character strings, *)
(* so that lower(), strip() and join() are computed and not assumed.       *)
(* Python None is 0 for an id and the empty sequence for a name: the code  *)
(* only ever tests these values for truthiness.                            *)
(*                                                                         *)
(* Left out: the console output, the pause after each request, the         *)
(* request counter, and the display name of a contact, which the code      *)
(* copies into the changelog and never reads.                              *)
(***************************************************************************)
EXTENDS Integers, Sequences, FiniteSets, TLC

\* ---------------------------------------------------------------- bounds
MaxRows == 2
MaxPersons == 2
MaxFaults == 1
MaxRuns == 2
PageCap == 1

\* ------------------------------------------------------- program constants
limit == 500
ALL_ORGS_FIELD_NAME == "All LIGR Organizations"
DB_STATUS_FIELD_NAME == "DB Status"

\* ---------------------------------------------------------------- strings
NoName == <<>>

LowerChar(c) ==
    CASE c = "A" -> "a"
      [] c = "B" -> "b"
      [] OTHER -> c

\* str.lower()
Lower(s) == [i \in 1..Len(s) |-> LowerChar(s[i])]

RECURSIVE LStrip(_)
LStrip(s) == IF s # <<>> /\ Head(s) = " " THEN LStrip(Tail(s)) ELSE s

RECURSIVE RStrip(_)
RStrip(s) ==
    IF s # <<>> /\ s[Len(s)] = " " THEN RStrip(SubSeq(s, 1, Len(s) - 1)) ELSE s

\* str.strip()
Strip(s) == RStrip(LStrip(s))

Digit(d) ==
    CASE d = 0 -> "0" [] d = 1 -> "1" [] d = 2 -> "2" [] d = 3 -> "3"
      [] d = 4 -> "4" [] d = 5 -> "5" [] d = 6 -> "6" [] d = 7 -> "7"
      [] d = 8 -> "8" [] d = 9 -> "9"

\* str(n) of a non-negative integer, as the f-string renders it
RECURSIVE IntToStr(_)
IntToStr(n) == IF n < 10 THEN <<Digit(n)>> ELSE IntToStr(n \div 10) \o <<Digit(n % 10)>>

\* sep.join(parts)
RECURSIVE Join(_, _)
Join(sep, parts) ==
    IF parts = <<>> THEN <<>>
    ELSE IF Len(parts) = 1 THEN parts[1]
    ELSE parts[1] \o sep \o Join(sep, Tail(parts))

\* dict.get(key, default)
Get(d, k, default) == IF k \in DOMAIN d THEN d[k] ELSE default

EmptyDict == [k \in {} |-> 0]

Min(a, b) == IF a < b THEN a ELSE b

\* None as the id of a simulated organization.
DryRunIdNone(id) == 0

\* The synthesized id f"DRY_RUN_{id}" of a simulated organization: a value no
\* id assigned by the service (a positive integer) can equal.
DryRunId(id) == 0 - id

\* ------------------------------------------------------------ record loader
\* The body of the loop of load_postgres_data with the test of the
\* organization id left out: every row appends its organization to the user's
\* list.
FoldRowKeepsDuplicates(acc, row) ==
    LET email == Strip(Lower(row.Email))
        org_name == Strip(row.OrgName)
        org_key == Lower(org_name)
        orgs1 == IF org_key \notin DOMAIN acc.orgs
                 THEN acc.orgs @@ (org_key :> [name |-> org_name, id |-> row.OrgID])
                 ELSE acc.orgs
        users1 == IF email \notin DOMAIN acc.users
                  THEN acc.users @@
                       (email :> [name |-> Strip(row.FullName), user_id |-> row.UserID,
                                  orgs |-> <<>>])
                  ELSE acc.users
    IN [users |-> [users1 EXCEPT ![email].orgs =
                      Append(@, [name |-> org_name, id |-> row.OrgID])],
        orgs |-> orgs1]

\* The body of the loop of load_postgres_data with the organization id looked
\* up among the organizations of every earlier row instead of the user's own
\* list.
FoldRowSkipsKnownOrgs(acc, row) ==
    LET email == Strip(Lower(row.Email))
        org_name == Strip(row.OrgName)
        org_key == Lower(org_name)
        orgs1 == IF org_key \notin DOMAIN acc.orgs
                 THEN acc.orgs @@ (org_key :> [name |-> org_name, id |-> row.OrgID])
                 ELSE acc.orgs
        users1 == IF email \notin DOMAIN acc.users
                  THEN acc.users @@
                       (email :> [name |-> Strip(row.FullName), user_id |-> row.UserID,
                                  orgs |-> <<>>])
                  ELSE acc.users
        org_exists == \E key \in DOMAIN acc.orgs : acc.orgs[key].id = row.OrgID
    IN [users |-> IF ~org_exists
                  THEN [users1 EXCEPT ![email].orgs =
                            Append(@, [name |-> org_name, id |-> row.OrgID])]
                  ELSE users1,
        orgs |-> orgs1]

\* One CSV row folded into (users, orgs): the body of the loop of
\* load_postgres_data.
FoldRow(acc, row) ==
    LET email == Strip(Lower(row.Email))
        org_name == Strip(row.OrgName)
        org_id == row.OrgID
        user_id == row.UserID
        full_name == Strip(row.FullName)
        org_key == Lower(org_name)
        orgs1 == IF org_key \notin DOMAIN acc.orgs
                 THEN acc.orgs @@ (org_key :> [name |-> org_name, id |-> org_id])
                 ELSE acc.orgs
        users1 == IF email \notin DOMAIN acc.users
                  THEN acc.users @@
                       (email :> [name |-> full_name, user_id |-> user_id, orgs |-> <<>>])
                  ELSE acc.users
        org_exists == \E i \in 1..Len(users1[email].orgs) : users1[email].orgs[i].id = org_id
        users2 == IF ~org_exists
                  THEN [users1 EXCEPT ![email].orgs =
                            Append(@, [name |-> org_name, id |-> org_id])]
                  ELSE users1
    IN [users |-> users2, orgs |-> orgs1]

\* The loop over the rows; each row's result is bound before the next row
\* reads it.
RECURSIVE FoldRows(_, _)
FoldRows(acc, rows) ==
    IF rows = <<>> THEN acc
    ELSE CHOOSE result \in {FoldRows(next, Tail(rows)) :
                                next \in {FoldRow(acc, Head(rows))}} : TRUE

load_postgres_data(rows) == FoldRows([users |-> EmptyDict, orgs |-> EmptyDict], rows)

\* ------------------------------------------------------------------ inputs
\* Rows of the authoritative CSV export the runs read.
CsvRows ==
    { [Email |-> <<"A">>, OrgName |-> <<"A">>, OrgID |-> 1, UserID |-> 1, FullName |-> <<"x">>],
      [Email |-> <<"a", " ">>, OrgName |-> <<"B", " ">>, OrgID |-> 2, UserID |-> 3,
       FullName |-> <<"y">>],
      [Email |-> <<"b">>, OrgName |-> <<"B">>, OrgID |-> 2, UserID |-> 2, FullName |-> <<"z">>] }

SeqsUpTo(S, n) == UNION {[1..k -> S] : k \in 0..n}

CsvInputs == SeqsUpTo(CsvRows, MaxRows) \ {<<>>}

\* Organizations the CRM holds before the first run.
CrmOrgInputs ==
    { <<[id |-> 5, name |-> <<"a">>], [id |-> 6, name |-> <<"c">>]>> }

\* Organizations of a CRM that holds none of the export's.
CrmOtherOrgInputs ==
    { <<[id |-> 5, name |-> <<"c">>], [id |-> 6, name |-> <<"d">>]>> }

\* Contacts of the CRM before the first run, without their ids: the email
\* objects ({'value': ...}), the linked organization (0: none) and the value
\* held in the 'All LIGR Organizations' field where the CRM defines that field
\* (the empty sequence: none).
PersonShapes ==
    { [email |-> <<>>, org_id |-> 0, all_orgs |-> <<>>],
      [email |-> <<[value |-> <<"A", " ">>]>>, org_id |-> 5,
       all_orgs |-> <<"Z", " ", "(", "9", ")">>],
      [email |-> <<[value |-> <<"b">>], [value |-> <<"c">>]>>, org_id |-> 0,
       all_orgs |-> <<>>] }

\* The custom field values of a contact of that shape, in a CRM that defines
\* the fields person_fields.
PriorFields(shape, person_fields) ==
    LET hits == {i \in 1..Len(person_fields) :
                    person_fields[i].name = ALL_ORGS_FIELD_NAME}
    IN IF shape.all_orgs = <<>> \/ hits = {} THEN EmptyDict
       ELSE (person_fields[CHOOSE i \in hits : TRUE].key :> shape.all_orgs)

CrmPersonInputs(person_fields) ==
    { [i \in DOMAIN shapes |->
          [id |-> i, email |-> shapes[i].email, org_id |-> shapes[i].org_id,
           fields |-> PriorFields(shapes[i], person_fields)]] :
        shapes \in SeqsUpTo(PersonShapes, MaxPersons) }

\* The key the service assigns to the n-th person field.
FieldKey(n) == <<"key">> \o IntToStr(n)

\* Person fields defined in the CRM before the first run.
CrmFieldInputs ==
    { <<>>,
      <<[name |-> ALL_ORGS_FIELD_NAME, key |-> FieldKey(1)],
        [name |-> DB_STATUS_FIELD_NAME, key |-> FieldKey(2)]>> }

\* ------------------------------------------------------------------- state
VARIABLES
    csv,                \* the authoritative export (CSV_PATH)
    crmOrgs,            \* remote: organizations, in listing order
    crmPersons,         \* remote: persons, in listing order
    crmFields,          \* remote: person field definitions
    DRY_RUN,
    pc,                 \* position of main()
    run,                \* number of the current run
    faults,             \* failures the service may still report in this run
    postgres_users, postgres_orgs,
    start, all_items,   \* locals of fetch_all_paginated (start: of fetch_all_people too)
    pd_orgs, pd_persons,
    pd_org_by_name, pd_org_by_id, pd_person_by_email,
    all_orgs_field_key, db_status_field_key,
    missing_orgs, created, failed,
    in_both, only_pipedrive, changes,
    changelog, orglog,  \* the two files write_changelog writes
    calls,              \* history: POST and PUT requests issued in this run
    fetchFailed,        \* history: a page of this run reported success=false
    prev                \* history: the previous run

\* pipedrive_enrichment.py, the second script of the repository
VARIABLES
    CSV_FILE,           \* the export the enrichment reads
    epc,                \* position of its main()
    IN_DB_LABEL_ID, USER_ID_FIELD, ALL_ORGS_FIELD,
    postgres,           \* email -> row
    items,              \* the keys of postgres the loop of main() has yet to visit
    people, email_index,
    counts              \* created, updated, errors

enrichv == <<CSV_FILE, epc, IN_DB_LABEL_ID, USER_ID_FIELD, ALL_ORGS_FIELD, postgres,
             items, people, email_index, counts>>

remote == <<crmOrgs, crmPersons, crmFields>>
loaded == <<postgres_users, postgres_orgs>>
fetchv == <<start, all_items, pd_orgs, pd_persons>>
indexv == <<pd_org_by_name, pd_org_by_id, pd_person_by_email>>
keysv == <<all_orgs_field_key, db_status_field_key>>
orgsv == <<missing_orgs, created, failed>>
syncv == <<in_both, only_pipedrive, changes>>
logv == <<changelog, orglog>>

vars == <<csv, remote, DRY_RUN, pc, run, faults, loaded, fetchv, indexv, keysv,
          orgsv, syncv, logv, calls, fetchFailed, prev, enrichv>>

NoKey == <<>>
NoRun == [dry |-> FALSE, pc |-> "none", faults |-> 0, changes |-> <<>>, orgs |-> {}]

\* The state of a process that has not started main() yet.
Fresh ==
    /\ pc = "start"
    /\ faults = MaxFaults
    /\ postgres_users = EmptyDict /\ postgres_orgs = EmptyDict
    /\ start = 0 /\ all_items = <<>> /\ pd_orgs = <<>> /\ pd_persons = <<>>
    /\ pd_org_by_name = EmptyDict /\ pd_org_by_id = EmptyDict
    /\ pd_person_by_email = EmptyDict
    /\ all_orgs_field_key = NoKey /\ db_status_field_key = NoKey
    /\ missing_orgs = {} /\ created = <<>> /\ failed = <<>>
    /\ in_both = {} /\ only_pipedrive = {} /\ changes = <<>>
    /\ changelog = <<>> /\ orglog = <<>>
    /\ calls = <<>>
    /\ fetchFailed = FALSE

\* The same, of the next state.
FreshNext ==
    /\ pc' = "start"
    /\ faults' = MaxFaults
    /\ postgres_users' = EmptyDict /\ postgres_orgs' = EmptyDict
    /\ start' = 0 /\ all_items' = <<>> /\ pd_orgs' = <<>> /\ pd_persons' = <<>>
    /\ pd_org_by_name' = EmptyDict /\ pd_org_by_id' = EmptyDict
    /\ pd_person_by_email' = EmptyDict
    /\ all_orgs_field_key' = NoKey /\ db_status_field_key' = NoKey
    /\ missing_orgs' = {} /\ created' = <<>> /\ failed' = <<>>
    /\ in_both' = {} /\ only_pipedrive' = {} /\ changes' = <<>>
    /\ changelog' = <<>> /\ orglog' = <<>>
    /\ calls' = <<>>
    /\ fetchFailed' = FALSE

\* The enrichment script not started, with no export to read.
EnrichFresh ==
    /\ epc = "start"
    /\ IN_DB_LABEL_ID = 0 /\ USER_ID_FIELD = NoKey /\ ALL_ORGS_FIELD = NoKey
    /\ postgres = EmptyDict /\ items = <<>>
    /\ people = <<>> /\ email_index = EmptyDict
    /\ counts = [created |-> 0, updated |-> 0, errors |-> 0]

Init ==
    /\ CSV_FILE = <<>>
    /\ EnrichFresh
    /\ csv \in CsvInputs
    /\ crmOrgs \in CrmOrgInputs
    /\ crmFields \in CrmFieldInputs
    /\ crmPersons \in CrmPersonInputs(crmFields)
    /\ DRY_RUN \in BOOLEAN
    /\ run = 1
    /\ prev = NoRun
    /\ Fresh

\* The runs against a CRM that holds none of the export's organizations and
\* defines both custom fields.
InitOtherOrgs ==
    /\ CSV_FILE = <<>>
    /\ EnrichFresh
    /\ csv \in CsvInputs
    /\ crmOrgs \in CrmOtherOrgInputs
    /\ crmFields \in CrmFieldInputs \ {<<>>}
    /\ crmPersons \in CrmPersonInputs(crmFields)
    /\ DRY_RUN \in BOOLEAN
    /\ run = 1
    /\ prev = NoRun
    /\ Fresh

\* The outcomes the service may report for one request: success always, and
\* failure while the run's budget of failures lasts.
Outcomes == IF faults > 0 THEN {TRUE, FALSE} ELSE {TRUE}

Spend(ok) == IF ok THEN faults ELSE faults - 1

\* ---------------------------------------------------------- main: connection
\* main(): api_get("users/me"); a failed connection test returns at once.
TestConnection ==
    /\ pc = "start"
    /\ \E ok \in Outcomes :
          /\ faults' = Spend(ok)
          /\ pc' = IF ok THEN "load_postgres" ELSE "aborted"
    /\ UNCHANGED <<enrichv, csv, remote, DRY_RUN, run, loaded, fetchv, indexv, keysv, orgsv,
                   syncv, logv, calls, fetchFailed, prev>>

LoadPostgres ==
    /\ pc = "load_postgres"
    /\ postgres_users' = load_postgres_data(csv).users
    /\ postgres_orgs' = load_postgres_data(csv).orgs
    /\ pc' = "fetch_orgs"
    /\ UNCHANGED <<enrichv, csv, remote, DRY_RUN, run, faults, fetchv, indexv, keysv, orgsv,
                   syncv, logv, calls, fetchFailed, prev>>

\* ------------------------------------------------------------ snapshot builder
\* The page the service returns for {'start': s, 'limit': limit}: it serves at
\* most PageCap records a page.
PageData(coll, s) == SubSeq(coll, s + 1, Min(s + Min(limit, PageCap), Len(coll)))
MoreItems(coll, s) == s + Min(limit, PageCap) < Len(coll)
NextStart(coll, s) == s + Min(limit, PageCap)

\* One iteration of the loop of fetch_all_paginated over `coll`, the service
\* answering success=ok: whether the loop ends with it, and the list
\* accumulated after it.
FetchEnds(coll, ok) ==
    \/ ~ok
    \/ PageData(coll, start) = <<>>
    \/ ~MoreItems(coll, start)

FetchItems(coll, ok) ==
    IF ~ok \/ PageData(coll, start) = <<>>
    THEN all_items
    ELSE all_items \o PageData(coll, start)

FetchOrganizations ==
    /\ pc = "fetch_orgs"
    /\ \E ok \in Outcomes :
          /\ faults' = Spend(ok)
          /\ fetchFailed' = (fetchFailed \/ ~ok)
          /\ IF FetchEnds(crmOrgs, ok)
             THEN /\ pd_orgs' = FetchItems(crmOrgs, ok)
                  /\ start' = 0 /\ all_items' = <<>>
                  /\ pc' = "fetch_persons"
             ELSE /\ all_items' = FetchItems(crmOrgs, ok)
                  /\ start' = NextStart(crmOrgs, start)
                  /\ UNCHANGED <<pd_orgs, pc>>
    /\ UNCHANGED <<enrichv, csv, remote, DRY_RUN, run, loaded, pd_persons, indexv, keysv, orgsv,
                   syncv, logv, calls, prev>>

FetchPersons ==
    /\ pc = "fetch_persons"
    /\ \E ok \in Outcomes :
          /\ faults' = Spend(ok)
          /\ fetchFailed' = (fetchFailed \/ ~ok)
          /\ IF FetchEnds(crmPersons, ok)
             THEN /\ pd_persons' = FetchItems(crmPersons, ok)
                  /\ start' = 0 /\ all_items' = <<>>
                  /\ pc' = "build"
             ELSE /\ all_items' = FetchItems(crmPersons, ok)
                  /\ start' = NextStart(crmPersons, start)
                  /\ UNCHANGED <<pd_persons, pc>>
    /\ UNCHANGED <<enrichv, csv, remote, DRY_RUN, run, loaded, pd_orgs, indexv, keysv, orgsv,
                   syncv, logv, calls, prev>>

Max(S) == CHOOSE x \in S : \A y \in S : y <= x

OrgKey(org) == Strip(Lower(org.name))

\* email_obj.get('value', '').lower().strip() of every email object of a person
PersonEmails(person) ==
    {Strip(Lower(person.email[j].value)) : j \in 1..Len(person.email)} \ {<<>>}

\* load_pipedrive_data, lines 161-179: every assignment overwrites, so the
\* last record listed under a key is the one the index holds.
BuildLookups ==
    /\ pc = "build"
    /\ pd_org_by_name' =
          [k \in {OrgKey(pd_orgs[i]) : i \in 1..Len(pd_orgs)} |->
              pd_orgs[Max({i \in 1..Len(pd_orgs) : OrgKey(pd_orgs[i]) = k})]]
    /\ pd_org_by_id' =
          [d \in {pd_orgs[i].id : i \in 1..Len(pd_orgs)} |->
              pd_orgs[Max({i \in 1..Len(pd_orgs) : pd_orgs[i].id = d})]]
    /\ pd_person_by_email' =
          [e \in UNION {PersonEmails(pd_persons[i]) : i \in 1..Len(pd_persons)} |->
              pd_persons[Max({i \in 1..Len(pd_persons) : e \in PersonEmails(pd_persons[i])})]]
    /\ pc' = "fields"
    /\ UNCHANGED <<enrichv, csv, remote, DRY_RUN, run, faults, loaded, fetchv, keysv, orgsv,
                   syncv, logv, calls, fetchFailed, prev>>

\* ------------------------------------------------------------- custom fields
DryRunKey(name) == <<"DRY_RUN", name>>

\* key.startswith("DRY_RUN")
StartsWithDryRun(key) == key # <<>> /\ key[1] = "DRY_RUN"

\* The loop over person_fields: the key of the last field of that name.
KeyByName(person_fields, name) ==
    LET hits == {i \in 1..Len(person_fields) : person_fields[i].name = name} IN
    IF hits = {} THEN NoKey ELSE person_fields[Max(hits)].key

\* A request as the history records it.
Call(method, endpoint, target, for, data, ok, result) ==
    [method |-> method, endpoint |-> endpoint, target |-> target, for |-> for,
     data |-> data, ok |-> ok, result |-> result]

FieldPost(name, ok) ==
    Call("POST", "personFields", 0, NoName, (<<"name">> :> name), ok, 0)

\* get_or_create_custom_fields: the GET of the field list and, for each of the
\* two fields not found in it, the dry-run placeholder or the POST creating it.
GetOrCreateCustomFields ==
    /\ pc = "fields"
    /\ \E getOk \in BOOLEAN, ok1 \in BOOLEAN, ok2 \in BOOLEAN :
          LET person_fields == IF getOk THEN crmFields ELSE <<>>
              found1 == KeyByName(person_fields, ALL_ORGS_FIELD_NAME)
              found2 == KeyByName(person_fields, DB_STATUS_FIELD_NAME)
              post1 == found1 = NoKey /\ ~DRY_RUN
              post2 == found2 = NoKey /\ ~DRY_RUN
              fields1 == IF post1 /\ ok1
                         THEN Append(crmFields, [name |-> ALL_ORGS_FIELD_NAME,
                                                 key |-> FieldKey(Len(crmFields) + 1)])
                         ELSE crmFields
              fields2 == IF post2 /\ ok2
                         THEN Append(fields1, [name |-> DB_STATUS_FIELD_NAME,
                                               key |-> FieldKey(Len(fields1) + 1)])
                         ELSE fields1
              nfail == (IF getOk THEN 0 ELSE 1) + (IF ok1 THEN 0 ELSE 1)
                       + (IF ok2 THEN 0 ELSE 1)
          IN /\ nfail <= faults
             /\ ~post1 => ok1
             /\ ~post2 => ok2
             /\ faults' = faults - nfail
             /\ all_orgs_field_key' =
                   IF found1 # NoKey THEN found1
                   ELSE IF DRY_RUN THEN DryRunKey("ALL_ORGS_KEY")
                   ELSE IF ok1 THEN fields1[Len(fields1)].key
                   ELSE NoKey
             /\ db_status_field_key' =
                   IF found2 # NoKey THEN found2
                   ELSE IF DRY_RUN THEN DryRunKey("DB_STATUS_KEY")
                   ELSE IF ok2 THEN fields2[Len(fields2)].key
                   ELSE NoKey
             /\ crmFields' = fields2
             /\ calls' = calls
                   \o (IF post1 THEN <<FieldPost(ALL_ORGS_FIELD_NAME, ok1)>> ELSE <<>>)
                   \o (IF post2 THEN <<FieldPost(DB_STATUS_FIELD_NAME, ok2)>> ELSE <<>>)
    /\ pc' = "create_orgs"
    /\ UNCHANGED <<enrichv, csv, crmOrgs, crmPersons, DRY_RUN, run, loaded, fetchv, indexv,
                   orgsv, syncv, logv, fetchFailed, prev>>

\* --------------------------------------------------------- create_missing_orgs
\* Every organization of the export taken for one to create, the index not
\* consulted.
CreateMissingOrgsAll ==
    /\ pc = "create_orgs"
    /\ missing_orgs' = DOMAIN postgres_orgs
    /\ created' = <<>>
    /\ failed' = <<>>
    /\ pc' = "create_loop"
    /\ UNCHANGED <<enrichv, csv, remote, DRY_RUN, run, faults, loaded, fetchv, indexv, keysv,
                   syncv, logv, calls, fetchFailed, prev>>

\* Lines 251-258: the organizations to create.
CreateMissingOrgsBegin ==
    /\ pc = "create_orgs"
    /\ missing_orgs' = DOMAIN postgres_orgs \ DOMAIN pd_org_by_name
    /\ created' = <<>>
    /\ failed' = <<>>
    /\ pc' = "create_loop"
    /\ UNCHANGED <<enrichv, csv, remote, DRY_RUN, run, faults, loaded, fetchv, indexv, keysv,
                   syncv, logv, calls, fetchFailed, prev>>

\* The id the service assigns to the next organization.
NewOrgId == Max({crmOrgs[i].id : i \in 1..Len(crmOrgs)} \cup {0}) + 1

\* The created organization left out of the index.
IndexOrgNotInserted(index, org_key, org) == index

\* pd_org_by_name[org_key] = org
IndexOrg(index, org_key, org) == (org_key :> org) @@ index

\* One iteration of the loop over missing_orgs (a set: any order).
CreateOrg ==
    /\ pc = "create_loop"
    /\ \E org_key \in missing_orgs :
          LET org_data == postgres_orgs[org_key] IN
          /\ missing_orgs' = missing_orgs \ {org_key}
          /\ IF DRY_RUN
             THEN /\ pd_org_by_name' =
                        IndexOrg(pd_org_by_name, org_key,
                                 [id |-> DryRunId(org_data.id), name |-> org_data.name])
                  /\ created' = Append(created, org_data)
                  /\ UNCHANGED <<crmOrgs, failed, calls, faults>>
             ELSE \E ok \in Outcomes :
                  LET new_org == [id |-> NewOrgId, name |-> org_data.name] IN
                  /\ faults' = Spend(ok)
                  /\ calls' = Append(calls,
                        Call("POST", "organizations", 0, NoName,
                             (<<"name">> :> org_data.name), ok,
                             IF ok THEN new_org.id ELSE 0))
                  /\ IF ok
                     THEN /\ crmOrgs' = Append(crmOrgs, new_org)
                          /\ pd_org_by_name' = IndexOrg(pd_org_by_name, org_key, new_org)
                          /\ created' = Append(created,
                                [name |-> org_data.name, pd_id |-> new_org.id])
                          /\ UNCHANGED failed
                     ELSE /\ failed' = Append(failed,
                                [name |-> org_data.name, error |-> "{'success': False}"])
                          /\ UNCHANGED <<crmOrgs, pd_org_by_name, created>>
    /\ UNCHANGED <<enrichv, csv, crmPersons, crmFields, DRY_RUN, pc, run, loaded, fetchv,
                   pd_org_by_id, pd_person_by_email, keysv, syncv, logv, fetchFailed,
                   prev>>

\* ---------------------------------------------------------------- sync_persons
\* Lines 298-314; the loop of create_missing_orgs has ended.
SyncPersonsBegin ==
    /\ pc = "create_loop"
    /\ missing_orgs = {}
    /\ in_both' = DOMAIN postgres_users \cap DOMAIN pd_person_by_email
    /\ only_pipedrive' = DOMAIN pd_person_by_email \ DOMAIN postgres_users
    /\ changes' = <<>>
    /\ pc' = "sync_loop"
    /\ UNCHANGED <<enrichv, csv, remote, DRY_RUN, run, faults, loaded, fetchv, indexv, keysv,
                   orgsv, logv, calls, fetchFailed, prev>>

\* Lines 321-324: ", ".join(f"{org['name']} ({org['id']})" ...)
AllOrgsValue(orgs) ==
    Join(<<",", " ">>,
         [i \in 1..Len(orgs) |->
             orgs[i].name \o <<" ", "(">> \o IntToStr(orgs[i].id) \o <<")">>])

\* Lines 327-330: the name of the person's current organization, or None.
CurrentOrgName(current_org_id) ==
    IF current_org_id # 0 /\ current_org_id \in DOMAIN pd_org_by_id
    THEN pd_org_by_id[current_org_id].name
    ELSE NoName

\* A comparison of the names as written, without lower().
CurrentMatchesCaseSensitive(current_org_name, orgs) ==
    /\ current_org_name # NoName
    /\ current_org_name \in {orgs[i].name : i \in 1..Len(orgs)}

\* Lines 333-334
CurrentMatches(current_org_name, orgs) ==
    /\ current_org_name # NoName
    /\ Lower(current_org_name) \in {Lower(orgs[i].name) : i \in 1..Len(orgs)}

\* Lines 337-356: the organization the person is to be linked to.
NewOrg(postgres_user, current_org_id, current_org_name) ==
    IF CurrentMatches(current_org_name, postgres_user.orgs)
    THEN [id |-> current_org_id, name |-> current_org_name, org_action |-> "kept"]
    ELSE LET primary_org == postgres_user.orgs[1]
             primary_org_key == Lower(primary_org.name)
         IN IF primary_org_key \in DOMAIN pd_org_by_name
            THEN [id |-> pd_org_by_name[primary_org_key].id,
                  name |-> pd_org_by_name[primary_org_key].name,
                  org_action |-> "updated"]
            ELSE [id |-> current_org_id, name |-> current_org_name,
                  org_action |-> "skipped (org not found)"]

\* The payload with the link written whenever there is one, changed or not.
UpdateDataAlwaysLinks(new_org_id, current_org_id, all_orgs_value) ==
    (IF new_org_id # 0
     THEN (<<"org_id">> :> new_org_id) ELSE EmptyDict)
    @@
    (IF all_orgs_field_key # NoKey /\ ~StartsWithDryRun(all_orgs_field_key)
     THEN (all_orgs_field_key :> all_orgs_value) ELSE EmptyDict)

\* Lines 359-367: the payload of the update.
UpdateData(new_org_id, current_org_id, all_orgs_value) ==
    (IF new_org_id # current_org_id /\ new_org_id # 0
     THEN (<<"org_id">> :> new_org_id) ELSE EmptyDict)
    @@
    (IF all_orgs_field_key # NoKey /\ ~StartsWithDryRun(all_orgs_field_key)
     THEN (all_orgs_field_key :> all_orgs_value) ELSE EmptyDict)

\* Any answer of the service taken for a success.
RecordedAsSuccess(change_record, ok) == [change_record EXCEPT !.status = "success"]

\* Lines 391-397 and 443-449: the outcome of a write, from the service's answer.
Recorded(change_record, ok) ==
    IF ok
    THEN [change_record EXCEPT !.status = "success"]
    ELSE [change_record EXCEPT !.status = "failed"] @@ ("error" :> "{'success': False}")

\* The service applying PUT persons/{id}: the organization link and the values
\* of the fields it knows.
ApplyPut(persons, id, data) ==
    LET known == {crmFields[i].key : i \in 1..Len(crmFields)} \cap DOMAIN data IN
    [i \in 1..Len(persons) |->
        IF persons[i].id # id THEN persons[i]
        ELSE [persons[i] EXCEPT
                 !.org_id = IF <<"org_id">> \in DOMAIN data THEN data[<<"org_id">>] ELSE @,
                 !.fields = [k \in known |-> data[k]] @@ @]]

\* One iteration of the loop over in_both (a set: any order), lines 316-405.
SyncPerson ==
    /\ pc = "sync_loop"
    /\ \E email \in in_both :
          LET postgres_user == postgres_users[email]
              pd_person == pd_person_by_email[email]
              all_orgs_value == AllOrgsValue(postgres_user.orgs)
              current_org_id == pd_person.org_id
              current_org_name == CurrentOrgName(current_org_id)
              new_org == NewOrg(postgres_user, current_org_id, current_org_name)
              update_data == UpdateData(new_org.id, current_org_id, all_orgs_value)
              change_record ==
                  [email |-> email, pd_person_id |-> pd_person.id,
                   current_org |-> current_org_name, new_org |-> new_org.name,
                   org_action |-> new_org.org_action, all_orgs |-> all_orgs_value,
                   status |-> "pending"]
          IN /\ in_both' = in_both \ {email}
             /\ IF DOMAIN update_data # {}
                THEN IF DRY_RUN
                     THEN /\ changes' = Append(changes,
                                [change_record EXCEPT !.status = "dry_run"])
                          /\ UNCHANGED <<crmPersons, calls, faults>>
                     ELSE \E ok \in Outcomes :
                          /\ faults' = Spend(ok)
                          /\ calls' = Append(calls,
                                Call("PUT", "persons", pd_person.id, email,
                                     update_data, ok, 0))
                          /\ crmPersons' = IF ok
                                THEN ApplyPut(crmPersons, pd_person.id, update_data)
                                ELSE crmPersons
                          /\ changes' = Append(changes, Recorded(change_record, ok))
                ELSE /\ changes' = Append(changes,
                           [change_record EXCEPT !.status = "skipped"])
                     /\ UNCHANGED <<crmPersons, calls, faults>>
    /\ UNCHANGED <<enrichv, csv, crmOrgs, crmFields, DRY_RUN, pc, run, loaded, fetchv, indexv,
                   keysv, orgsv, only_pipedrive, logv, fetchFailed, prev>>

NotInDb == <<"not in db">>

\* One iteration of the loop over only_pipedrive, lines 417-454; the loop over
\* in_both has ended.
TagPerson ==
    /\ pc = "sync_loop"
    /\ in_both = {}
    /\ \E email \in only_pipedrive :
          LET pd_person == pd_person_by_email[email]
              change_record ==
                  [email |-> email, pd_person_id |-> pd_person.id,
                   current_org |->
                       Get(pd_org_by_id, pd_person.org_id, [name |-> NoName]).name,
                   new_org |-> NoName, org_action |-> "tagged_not_in_db",
                   all_orgs |-> NoName, status |-> "pending"]
          IN /\ only_pipedrive' = only_pipedrive \ {email}
             /\ IF DRY_RUN
                THEN /\ changes' = Append(changes,
                           [change_record EXCEPT !.status = "dry_run"])
                     /\ UNCHANGED <<crmPersons, calls, faults>>
                ELSE IF db_status_field_key # NoKey
                THEN \E ok \in Outcomes :
                     LET data == (db_status_field_key :> NotInDb) IN
                     /\ faults' = Spend(ok)
                     /\ calls' = Append(calls,
                           Call("PUT", "persons", pd_person.id, email, data, ok, 0))
                     /\ crmPersons' = IF ok
                           THEN ApplyPut(crmPersons, pd_person.id, data)
                           ELSE crmPersons
                     /\ changes' = Append(changes, Recorded(change_record, ok))
                ELSE /\ changes' = Append(changes, change_record)
                     /\ UNCHANGED <<crmPersons, calls, faults>>
    /\ UNCHANGED <<enrichv, csv, crmOrgs, crmFields, DRY_RUN, pc, run, loaded, fetchv, indexv,
                   keysv, orgsv, in_both, logv, fetchFailed, prev>>

\* ------------------------------------------------------------------- changelog
\* Lines 480-491: the row of one change.
ChangeRow(change) ==
    [email |-> change.email,
     pd_person_id |-> IntToStr(change.pd_person_id),
     current_org |-> change.current_org,
     new_org |-> change.new_org,
     org_action |-> change.org_action,
     all_orgs |-> change.all_orgs,
     status |-> change.status,
     error |-> Get(change, "error", "")]

ChangeRows(cs) == [i \in 1..Len(cs) |-> ChangeRow(cs[i])]

\* The rows of the created organizations alone.
OrgRowsCreatedOnly(created_orgs, failed_orgs) ==
    [i \in 1..Len(created_orgs) |->
        [name |-> created_orgs[i].name,
         pd_id |-> IF "pd_id" \in DOMAIN created_orgs[i]
                   THEN IntToStr(created_orgs[i].pd_id) ELSE <<"N/A">>,
         status |-> "created"]]

\* Lines 500-503: the rows of the organization log.
OrgRows(created_orgs, failed_orgs) ==
    [i \in 1..Len(created_orgs) |->
        [name |-> created_orgs[i].name,
         pd_id |-> IF "pd_id" \in DOMAIN created_orgs[i]
                   THEN IntToStr(created_orgs[i].pd_id) ELSE <<"N/A">>,
         status |-> "created"]]
    \o
    [i \in 1..Len(failed_orgs) |->
        [name |-> failed_orgs[i].name, pd_id |-> <<>>, status |-> "failed"]]

\* write_changelog, called by main() when sync_persons has returned.
WriteChangelog ==
    /\ pc = "sync_loop"
    /\ in_both = {}
    /\ only_pipedrive = {}
    /\ changelog' = ChangeRows(changes)
    /\ orglog' = OrgRows(created, failed)
    /\ pc' = "done"
    /\ UNCHANGED <<enrichv, csv, remote, DRY_RUN, run, faults, loaded, fetchv, indexv, keysv,
                   orgsv, syncv, calls, fetchFailed, prev>>

\* ---------------------------------------------------------------------- runs
\* The script is run again (python pipedrive_sync.py) on the same export,
\* against the CRM as the earlier runs left it.
RunAgain ==
    /\ pc \in {"done", "aborted"}
    /\ run < MaxRuns
    /\ run' = run + 1
    /\ prev' = [dry |-> DRY_RUN, pc |-> pc, faults |-> MaxFaults - faults,
                changes |-> changes,
                orgs |-> {created[i].name : i \in 1..Len(created)}
                         \cup {failed[i].name : i \in 1..Len(failed)}]
    /\ DRY_RUN' \in BOOLEAN
    /\ FreshNext
    /\ UNCHANGED <<enrichv, csv, remote>>

\* ============================================================ enrichment
\* pipedrive_enrichment.py: its inputs.
UpperChar(c) ==
    CASE c = "a" -> "A" [] c = "b" -> "B" [] c = "e" -> "E" [] c = "n" -> "N"
      [] c = "s" -> "S" [] c = "t" -> "T" [] c = "w" -> "W"
      [] OTHER -> c

\* str.upper()
Upper(s) == [i \in 1..Len(s) |-> UpperChar(s[i])]

IN_DATABASE == <<"I", "N", " ", "D", "A", "T", "A", "B", "A", "S", "E">>
USER_ID_FIELD_NAME == "User ID"

\* Rows of the export the enrichment reads.
EnrichRows ==
    { [email |-> <<"A">>, full_name |-> <<"x">>, user_id |-> 1,
       all_ligr_organizations |-> <<"A", " ", "(", "1", ")">>],
      [email |-> <<"a", " ">>, full_name |-> <<"y">>, user_id |-> 3,
       all_ligr_organizations |-> <<"B", " ", "(", "2", ")">>],
      [email |-> <<" ">>, full_name |-> <<"z">>, user_id |-> 2,
       all_ligr_organizations |-> <<>>] }

EnrichCsvInputs == SeqsUpTo(EnrichRows, MaxRows) \ {<<>>}

LabelField(option_label) ==
    [name |-> "Label", key |-> <<"label">>,
     options |-> <<[id |-> 7, label |-> <<"N", "e", "w">>],
                   [id |-> 8, label |-> option_label]>>]

\* Person fields of the CRM the enrichment runs against: all it needs, the
\* label option missing, a custom field missing.
EnrichFieldInputs ==
    { <<LabelField(<<"I", "n", " ", "D", "a", "t", "a", "b", "a", "s", "e">>),
        [name |-> USER_ID_FIELD_NAME, key |-> FieldKey(2), options |-> <<>>],
        [name |-> ALL_ORGS_FIELD_NAME, key |-> FieldKey(3), options |-> <<>>]>>,
      <<LabelField(<<"s", "e", "e", "n">>),
        [name |-> USER_ID_FIELD_NAME, key |-> FieldKey(2), options |-> <<>>],
        [name |-> ALL_ORGS_FIELD_NAME, key |-> FieldKey(3), options |-> <<>>]>>,
      <<LabelField(<<"I", "n", " ", "D", "a", "t", "a", "b", "a", "s", "e">>),
        [name |-> USER_ID_FIELD_NAME, key |-> FieldKey(2), options |-> <<>>]>> }

\* The sync script is not run: its variables stay as they start.
InitEnrich ==
    /\ CSV_FILE \in EnrichCsvInputs
    /\ EnrichFresh
    /\ csv = <<>>
    /\ crmOrgs \in CrmOrgInputs
    /\ crmFields \in EnrichFieldInputs
    /\ crmPersons \in CrmPersonInputs(crmFields)
    /\ DRY_RUN = FALSE
    /\ run = 1
    /\ prev = NoRun
    /\ Fresh

\* What the enrichment leaves alone: the variables of the sync script.
syncv2 == <<csv, crmOrgs, DRY_RUN, pc, run, loaded, all_items, pd_orgs, pd_persons,
            indexv, keysv, orgsv, syncv, logv, prev>>

\* get_label_id: the id of the first option of a field of key 'label' whose
\* label is label_name whatever the case; 0: RuntimeError.
get_label_id(fields, label_name) ==
    LET hits == UNION {{<<i, j>> : j \in {j \in 1..Len(fields[i].options) :
                                    Upper(fields[i].options[j].label) = Upper(label_name)}} :
                          i \in {i \in 1..Len(fields) : fields[i].key = <<"label">>}}
        first == CHOOSE h \in hits :
                    \A g \in hits : h[1] < g[1] \/ (h[1] = g[1] /\ h[2] <= g[2])
    IN IF hits = {} THEN 0 ELSE fields[first[1]].options[first[2]].id

\* get_field_key_by_name: the key of the first field of that name; NoKey:
\* RuntimeError.
get_field_key_by_name(fields, field_name) ==
    LET hits == {i \in 1..Len(fields) : fields[i].name = field_name} IN
    IF hits = {} THEN NoKey ELSE fields[CHOOSE i \in hits : \A j \in hits : i <= j].key

\* main(), line 117: the GET of the person fields and the lookup of the label.
GetLabelId ==
    /\ epc = "start"
    /\ \E ok \in Outcomes :
          LET fields == IF ok THEN crmFields ELSE <<>>
              id == get_label_id(fields, IN_DATABASE)
          IN /\ faults' = Spend(ok)
             /\ IN_DB_LABEL_ID' = id
             /\ epc' = IF id = 0 THEN "raised" ELSE "user_id_field"
    /\ UNCHANGED <<syncv2, remote, start, calls, fetchFailed, CSV_FILE, USER_ID_FIELD,
                   ALL_ORGS_FIELD, postgres, items, people, email_index, counts>>

\* main(), line 119
GetUserIdField ==
    /\ epc = "user_id_field"
    /\ \E ok \in Outcomes :
          LET fields == IF ok THEN crmFields ELSE <<>>
              key == get_field_key_by_name(fields, USER_ID_FIELD_NAME)
          IN /\ faults' = Spend(ok)
             /\ USER_ID_FIELD' = key
             /\ epc' = IF key = NoKey THEN "raised" ELSE "all_orgs_field"
    /\ UNCHANGED <<syncv2, remote, start, calls, fetchFailed, CSV_FILE, IN_DB_LABEL_ID,
                   ALL_ORGS_FIELD, postgres, items, people, email_index, counts>>

\* main(), line 120
GetAllOrgsField ==
    /\ epc = "all_orgs_field"
    /\ \E ok \in Outcomes :
          LET fields == IF ok THEN crmFields ELSE <<>>
              key == get_field_key_by_name(fields, ALL_ORGS_FIELD_NAME)
          IN /\ faults' = Spend(ok)
             /\ ALL_ORGS_FIELD' = key
             /\ epc' = IF key = NoKey THEN "raised" ELSE "load"
    /\ UNCHANGED <<syncv2, remote, start, calls, fetchFailed, CSV_FILE, IN_DB_LABEL_ID,
                   USER_ID_FIELD, postgres, items, people, email_index, counts>>

\* (row.get("email") or "").strip().lower()
RowEmail(row) == Lower(Strip(row.email))

\* load_postgres_data of the enrichment: users[email] = row, the rows of an
\* empty email skipped.
users_of(rows) ==
    [email \in {RowEmail(rows[i]) : i \in 1..Len(rows)} \ {<<>>} |->
        rows[Max({i \in 1..Len(rows) : RowEmail(rows[i]) = email})]]

\* The keys of that dict in the order postgres.items() yields them: by first
\* insertion.
RECURSIVE keys_of(_)
keys_of(rows) ==
    IF rows = <<>> THEN <<>>
    ELSE LET front == SubSeq(rows, 1, Len(rows) - 1)
             email == RowEmail(rows[Len(rows)])
         IN IF email = <<>> \/ \E i \in 1..Len(front) : RowEmail(front[i]) = email
            THEN keys_of(front)
            ELSE Append(keys_of(front), email)

EnrichLoadPostgres ==
    /\ epc = "load"
    /\ postgres' = users_of(CSV_FILE)
    /\ items' = keys_of(CSV_FILE)
    /\ epc' = "fetch"
    /\ UNCHANGED <<syncv2, remote, faults, start, calls, fetchFailed, CSV_FILE,
                   IN_DB_LABEL_ID, USER_ID_FIELD, ALL_ORGS_FIELD, people, email_index,
                   counts>>

\* One iteration of the loop of fetch_all_people: the next page is asked for
\* at start + limit.
FetchPeople ==
    /\ epc = "fetch"
    /\ \E ok \in Outcomes :
          LET data == PageData(crmPersons, start) IN
          /\ faults' = Spend(ok)
          /\ fetchFailed' = (fetchFailed \/ ~ok)
          /\ IF ~ok \/ data = <<>>
             THEN /\ epc' = "index"
                  /\ UNCHANGED <<people, start>>
             ELSE /\ people' = people \o data
                  /\ IF ~MoreItems(crmPersons, start)
                     THEN /\ epc' = "index"
                          /\ UNCHANGED start
                     ELSE /\ start' = start + limit
                          /\ UNCHANGED epc
    /\ UNCHANGED <<syncv2, remote, calls, CSV_FILE, IN_DB_LABEL_ID, USER_ID_FIELD,
                   ALL_ORGS_FIELD, postgres, items, email_index, counts>>

\* The keys build_email_index files a person under: val.strip().lower() of
\* every email value that is not empty.
IndexKeys(person) ==
    {Lower(Strip(person.email[j].value)) :
        j \in {j \in 1..Len(person.email) : person.email[j].value # <<>>}}

\* build_email_index: every assignment overwrites.
BuildEmailIndex ==
    /\ epc = "index"
    /\ email_index' =
          [e \in UNION {IndexKeys(people[i]) : i \in 1..Len(people)} |->
              people[Max({i \in 1..Len(people) : e \in IndexKeys(people[i])})]]
    /\ epc' = "loop"
    /\ UNCHANGED <<syncv2, remote, faults, start, calls, fetchFailed, CSV_FILE,
                   IN_DB_LABEL_ID, USER_ID_FIELD, ALL_ORGS_FIELD, postgres, items, people,
                   counts>>

\* Lines 131-136: the payload of one row.
Payload(row) ==
    (<<"label">> :> IN_DB_LABEL_ID)
    @@ (ALL_ORGS_FIELD :> row.all_ligr_organizations)
    @@ (USER_ID_FIELD :> row.user_id)
    @@ (<<"name">> :> row.full_name)

\* The id the service assigns to the next person.
NewPersonId == Max({crmPersons[i].id : i \in 1..Len(crmPersons)} \cup {0}) + 1

\* The service applying POST persons: a new contact holding the email and the
\* values of the fields it knows.
ApplyPost(persons, data) ==
    LET known == {crmFields[i].key : i \in 1..Len(crmFields)} \cap DOMAIN data IN
    Append(persons, [id |-> NewPersonId, email |-> <<[value |-> data[<<"email">>]]>>,
                     org_id |-> 0, fields |-> [k \in known |-> data[k]]])

\* One iteration of the loop over postgres.items(), lines 128-150.
EnrichPerson ==
    /\ epc = "loop"
    /\ items # <<>>
    /\ LET email == Head(items)
           payload == Payload(postgres[email])
       IN \E ok \in Outcomes :
          /\ items' = Tail(items)
          /\ faults' = Spend(ok)
          /\ IF email \in DOMAIN email_index
             THEN LET person == email_index[email] IN
                  /\ calls' = Append(calls,
                        Call("PUT", "persons", person.id, email, payload, ok, 0))
                  /\ crmPersons' = IF ok THEN ApplyPut(crmPersons, person.id, payload)
                                   ELSE crmPersons
                  /\ counts' = IF ok THEN [counts EXCEPT !.updated = @ + 1]
                               ELSE [counts EXCEPT !.errors = @ + 1]
             ELSE LET data == (<<"email">> :> email) @@ payload IN
                  /\ calls' = Append(calls,
                        Call("POST", "persons", 0, email, data, ok,
                             IF ok THEN NewPersonId ELSE 0))
                  /\ crmPersons' = IF ok THEN ApplyPost(crmPersons, data) ELSE crmPersons
                  /\ counts' = IF ok THEN [counts EXCEPT !.created = @ + 1]
                               ELSE [counts EXCEPT !.errors = @ + 1]
    /\ UNCHANGED <<syncv2, crmOrgs, crmFields, start, fetchFailed, CSV_FILE, epc,
                   IN_DB_LABEL_ID, USER_ID_FIELD, ALL_ORGS_FIELD, postgres, people,
                   email_index>>

\* Lines 152-155: the loop has ended.
EnrichComplete ==
    /\ epc = "loop"
    /\ items = <<>>
    /\ epc' = "done"
    /\ UNCHANGED <<syncv2, remote, faults, start, calls, fetchFailed, CSV_FILE,
                   IN_DB_LABEL_ID, USER_ID_FIELD, ALL_ORGS_FIELD, postgres, items, people,
                   email_index, counts>>

\* One run of main() of pipedrive_enrichment.py.
NextEnrich ==
    \/ GetLabelId
    \/ GetUserIdField
    \/ GetAllOrgsField
    \/ EnrichLoadPostgres
    \/ FetchPeople
    \/ BuildEmailIndex
    \/ EnrichPerson
    \/ EnrichComplete

SpecEnrich == InitEnrich /\ [][NextEnrich]_vars

\* ================================================================== sync runs
\* One run of main().
Next ==
    \/ TestConnection
    \/ LoadPostgres
    \/ FetchOrganizations
    \/ FetchPersons
    \/ BuildLookups
    \/ GetOrCreateCustomFields
    \/ CreateMissingOrgsBegin
    \/ CreateOrg
    \/ SyncPersonsBegin
    \/ SyncPerson
    \/ TagPerson
    \/ WriteChangelog

Spec == Init /\ [][Next]_vars

\* Runs of main() one after the other.
NextRuns ==
    \/ Next
    \/ RunAgain

SpecRuns == Init /\ [][NextRuns]_vars

\* One run of main() against a CRM that holds none of the export's
\* organizations and defines both custom fields.
SpecOtherOrgs == InitOtherOrgs /\ [][Next]_vars

\* ====================================================================== claims
\* A run that ended with the changelog, no request of it having failed.
CleanRun == pc = "done" /\ faults = MaxFaults

\* The previous run was one too.
PrevClean == prev.pc = "done" /\ prev.faults = 0

\* The requests of this run that change the CRM's persons.
PutCalls == {i \in 1..Len(calls) : calls[i].method = "PUT"}

\* C1: a second live run against the same users and the CRM as a first live
\* run left it issues no update call, and every decision it records is
\* 'skipped'.
C1_SecondRunIsNoOp ==
    (CleanRun /\ ~DRY_RUN /\ PrevClean /\ ~prev.dry)
        => /\ PutCalls = {}
           /\ \A i \in 1..Len(changes) : changes[i].status = "skipped"

\* The decisions of the identities present in both sources.
BothDecisions == {i \in 1..Len(changes) : changes[i].email \in DOMAIN postgres_users}

\* The organizations of the snapshot the contact of a decision is linked to.
LinkedOrgs(c) ==
    {pd_orgs[k] : k \in {k \in 1..Len(pd_orgs) :
                            pd_orgs[k].id = pd_person_by_email[c.email].org_id}}

\* The organization name of the snapshot the contact of a decision is linked
\* to equals, whatever the case of the letters, a name of the user's list.
LinkIsAuthoritative(c) ==
    \E o \in LinkedOrgs(c) :
        \E j \in 1..Len(postgres_users[c.email].orgs) :
            Lower(o.name) = Lower(postgres_users[c.email].orgs[j].name)

\* C2: a contact whose current organization name equals, case-insensitively,
\* the name of any organization of the authoritative user is decided 'kept',
\* and the update sent for it carries no org_id.
C2_KeptLink ==
    \A i \in BothDecisions :
        LinkIsAuthoritative(changes[i])
            => /\ changes[i].org_action = "kept"
               /\ \A k \in PutCalls :
                     calls[k].for = changes[i].email
                         => <<"org_id">> \notin DOMAIN calls[k].data

\* C2 witness: a link kept for a name that differs in case from the user's
\* second organization and is not the first one's, with its update sent.
C2_Witness ==
    \E i \in BothDecisions :
        LET c == changes[i]
            orgs == postgres_users[c.email].orgs
        IN /\ c.org_action = "kept"
           /\ Len(orgs) = 2
           /\ Lower(c.current_org) = Lower(orgs[2].name)
           /\ c.current_org # orgs[2].name
           /\ Lower(c.current_org) # Lower(orgs[1].name)
           /\ \E k \in PutCalls : calls[k].for = c.email /\ calls[k].ok

\* sync_persons has started resolving organizations by name.
Syncing == pc \in {"sync_loop", "done"}

\* The requests of this run creating an organization.
OrgPosts ==
    {i \in 1..Len(calls) : calls[i].method = "POST" /\ calls[i].endpoint = "organizations"}

\* The key of the first organization of the user of a decision.
FirstOrgKey(c) == Lower(postgres_users[c.email].orgs[1].name)

FailedKeys == {Lower(failed[i].name) : i \in 1..Len(failed)}
CreatedKeys == {Lower(created[i].name) : i \in 1..Len(created)}

\* C3 as stated: once sync_persons runs, every authoritative organization is
\* in the org-by-name index, no resolution of a first organization fails, and
\* no organization is created twice.
C3_OrgsCreatedBeforeSync ==
    Syncing =>
        /\ DOMAIN postgres_orgs \subseteq DOMAIN pd_org_by_name
        /\ \A i \in BothDecisions : changes[i].org_action # "skipped (org not found)"
        /\ \A i, j \in OrgPosts :
              Lower(calls[i].data[<<"name">>]) = Lower(calls[j].data[<<"name">>]) => i = j

\* C3 amended: once sync_persons runs, the creation of every authoritative
\* organization absent from the snapshot has been attempted, once; each one
\* whose creation succeeded or was simulated is in the index under the id the
\* creation assigned, its resolution succeeds and the link written is that id;
\* a resolution fails only for an organization whose creation failed.
C3_CreatedOrgsResolve ==
    Syncing =>
        /\ DOMAIN postgres_orgs \subseteq DOMAIN pd_org_by_name \cup FailedKeys
        /\ CreatedKeys \cap FailedKeys = {}
        /\ Len(created) + Len(failed) = Cardinality(CreatedKeys \cup FailedKeys)
        /\ ~DRY_RUN => Cardinality(OrgPosts) = Len(created) + Len(failed)
        /\ \A i \in 1..Len(created) :
              /\ Lower(created[i].name) \in DOMAIN pd_org_by_name
              /\ pd_org_by_name[Lower(created[i].name)].id =
                    IF DRY_RUN THEN DryRunId(created[i].id) ELSE created[i].pd_id
        /\ \A i \in BothDecisions :
              LET c == changes[i] IN
              /\ c.org_action = "skipped (org not found)" => FirstOrgKey(c) \in FailedKeys
              /\ (FirstOrgKey(c) \in CreatedKeys /\ ~LinkIsAuthoritative(c))
                    => /\ c.org_action = "updated"
                       /\ \A k \in PutCalls :
                             calls[k].for = c.email =>
                                 /\ <<"org_id">> \in DOMAIN calls[k].data
                                 /\ \E n \in 1..Len(created) :
                                       /\ Lower(created[n].name) = FirstOrgKey(c)
                                       /\ calls[k].data[<<"org_id">>] = created[n].pd_id

\* C3 witness: two users whose first organization is the same organization,
\* created in this run, both linked to it by their updates.
C3_Witness ==
    /\ ~DRY_RUN
    /\ Len(created) = 1
    /\ \E i, j \in BothDecisions :
          /\ i # j
          /\ FirstOrgKey(changes[i]) = Lower(created[1].name)
          /\ FirstOrgKey(changes[j]) = Lower(created[1].name)
          /\ \A n \in {i, j} :
                /\ changes[n].org_action = "updated"
                /\ \E k \in PutCalls :
                      /\ calls[k].for = changes[n].email
                      /\ calls[k].data[<<"org_id">>] = created[1].pd_id

\* C4: a run in which a page has reported success=false issues no create and
\* no update afterwards and decides nothing on the partial snapshot.
C4_FetchFailureAborts ==
    fetchFailed =>
        /\ calls = <<>>
        /\ changes = <<>>

\* Two decision lists hold the same entries, the first with 'dry_run' where
\* the second has the outcome of a write.
SameEntriesDryRun(dry, live) ==
    /\ {<<dry[i].email, dry[i].pd_person_id>> : i \in 1..Len(dry)}
          = {<<live[i].email, live[i].pd_person_id>> : i \in 1..Len(live)}
    /\ Len(dry) = Len(live)
    /\ \A i \in 1..Len(dry), j \in 1..Len(live) :
          dry[i].email = live[j].email =>
              dry[i].status = IF live[j].status = "skipped" THEN "skipped" ELSE "dry_run"

\* C5: a dry run issues no POST and no PUT, and its decisions and organization
\* creations are the entries a live run on the same inputs produces, with
\* outcome 'dry_run' in place of the live outcome.
C5_DryRunIsolation ==
    /\ DRY_RUN => calls = <<>>
    /\ (CleanRun /\ ~DRY_RUN /\ PrevClean /\ prev.dry)
          => /\ SameEntriesDryRun(prev.changes, changes)
             /\ prev.orgs = {created[i].name : i \in 1..Len(created)}

\* C6: the run creates one contact for every authoritative identity absent
\* from the CRM email index (in a dry run: records one decision for it).
C6_CreatePath ==
    CleanRun =>
        \A email \in DOMAIN postgres_users \ DOMAIN pd_person_by_email :
            \/ Cardinality({i \in 1..Len(calls) :
                               /\ calls[i].method = "POST"
                               /\ calls[i].endpoint = "persons"
                               /\ calls[i].for = email}) = 1
            \/ Cardinality({i \in 1..Len(changes) : changes[i].email = email}) = 1

\* C7: no two decisions of a run are for the same CRM contact, and no two for
\* the same authoritative user.
C7_OneDecisionPerRecord ==
    \A i, j \in 1..Len(changes) :
        i # j => /\ changes[i].pd_person_id # changes[j].pd_person_id
                 /\ changes[i].email # changes[j].email

\* The value the CRM holds in the status field of a person.
StatusOf(person) == Get(person.fields, db_status_field_key, <<>>)

\* C8: after a live run every contact of the CRM with no authoritative match
\* has a decision and a status tag: 'unknown' without an email, 'not in db'
\* with one.
C8_CrmOnlyTagging ==
    (CleanRun /\ ~DRY_RUN) =>
        \A n \in 1..Len(crmPersons) :
            PersonEmails(crmPersons[n]) \cap DOMAIN postgres_users = {} =>
                /\ \E i \in 1..Len(changes) : changes[i].pd_person_id = crmPersons[n].id
                /\ StatusOf(crmPersons[n]) =
                      IF PersonEmails(crmPersons[n]) = {} THEN <<"unknown">> ELSE NotInDb

\* C9: the decision of every update the service refused is 'failed' with an
\* error detail, and the loops go on: every identity of the email index has
\* its decision when sync_persons returns.
C9_FailuresNonFatal ==
    /\ \A k \in PutCalls :
          ~calls[k].ok =>
              \E i \in 1..Len(changes) :
                  /\ changes[i].email = calls[k].for
                  /\ changes[i].status = "failed"
                  /\ "error" \in DOMAIN changes[i]
                  /\ changes[i].error # ""
    /\ pc = "sync_loop" =>
          Len(changes) + Cardinality(in_both) + Cardinality(only_pipedrive)
              = Cardinality(DOMAIN pd_person_by_email)
    /\ pc = "done" => Len(changes) = Cardinality(DOMAIN pd_person_by_email)

\* C9 witness: a run that ended, its first update refused and a later
\* identity processed all the same.
C9_Witness ==
    /\ pc = "done"
    /\ Len(changes) >= 2
    /\ changes[1].status = "failed"
    /\ changes[Len(changes)].status = "success"

\* C10: a run past the load, fetch and schema phase always goes on, up to
\* write_changelog; the two logs are written by the last step, after every
\* request, and hold one row for every decision and one for every
\* organization creation outcome.
C10_AuditLogLastAndComplete ==
    /\ pc \in {"create_orgs", "create_loop", "sync_loop"} => ENABLED Next
    /\ pc # "done" => changelog = <<>> /\ orglog = <<>>
    /\ pc = "done" =>
          /\ Len(changelog) = Len(changes)
          /\ \A i \in 1..Len(changes) :
                /\ changelog[i].email = changes[i].email
                /\ changelog[i].status = changes[i].status
          /\ Len(orglog) = Len(created) + Len(failed)
          /\ \A i \in 1..Len(created) : orglog[i].name = created[i].name
          /\ \A i \in 1..Len(failed) : orglog[Len(created) + i].name = failed[i].name

\* C10 witness: the logs written after a refused organization creation, with
\* rows for a decision and for the refused creation.
C10_Witness ==
    /\ pc = "done"
    /\ \E k \in 1..Len(calls) : ~calls[k].ok
    /\ Len(failed) >= 1
    /\ Len(changelog) >= 1
    /\ orglog[Len(orglog)].status = "failed"

\* The run has loaded the export.
Loaded == pc \notin {"start", "load_postgres", "aborted"}

\* The rows of the export whose normalized email is `email`.
RowsOf(email) == {i \in 1..Len(csv) : Strip(Lower(csv[i].Email)) = email}

\* C11: the loader returns one user for every normalized email of the export,
\* and that user carries the display name and the user id of the last row
\* with that email.
C11_LastRowWins ==
    Loaded =>
        /\ DOMAIN postgres_users = {Strip(Lower(csv[i].Email)) : i \in 1..Len(csv)}
        /\ \A email \in DOMAIN postgres_users :
              LET last == csv[Max(RowsOf(email))] IN
              /\ postgres_users[email].name = Strip(last.FullName)
              /\ postgres_users[email].user_id = last.UserID

\* A row of the user `email`.
SameUser(row, email) == Strip(Lower(row.Email)) = email

\* 'Name (id)'
Item(row) == Strip(row.OrgName) \o <<" ", "(">> \o IntToStr(row.OrgID) \o <<")">>

\* The rendering of the first n rows of the export for the user `email`: a
\* row of the user whose organization id no earlier row of the user has adds
\* its item, after ', ' when it is not the first.
RECURSIVE RenderedUpTo(_, _)
RenderedUpTo(email, n) ==
    IF n = 0 THEN <<>>
    ELSE LET before == RenderedUpTo(email, n - 1) IN
         IF ~SameUser(csv[n], email)
               \/ \E j \in 1..(n - 1) :
                     SameUser(csv[j], email) /\ csv[j].OrgID = csv[n].OrgID
         THEN before
         ELSE IF before = <<>> THEN Item(csv[n])
         ELSE before \o <<",", " ">> \o Item(csv[n])

Rendered(email) == RenderedUpTo(email, Len(csv))

\* C12: the 'all organizations' value of every decision of an authoritative
\* user, and the value every update writes to the field, is the ', '-joined
\* list of the 'Name (id)' items of the user's rows in row order, a row whose
\* organization id an earlier row of the user has being left out; it depends
\* on the export alone, whatever value the contact holds in the field.
C12_OrgListRendering ==
    /\ \A i \in BothDecisions :
          changes[i].all_orgs = Rendered(changes[i].email)
    /\ \A k \in PutCalls :
          (calls[k].for \in DOMAIN postgres_users
              /\ all_orgs_field_key \in DOMAIN calls[k].data)
             => calls[k].data[all_orgs_field_key] = Rendered(calls[k].for)

\* C12 witness: a contact that held another value in the field, its user
\* with two organizations, updated to 'A (1), B (2)'.
C12_Witness ==
    \E i \in BothDecisions :
        LET c == changes[i]
            value == <<"A", " ", "(", "1", ")", ",", " ", "B", " ", "(", "2", ")">>
        IN /\ c.all_orgs = value
           /\ c.status = "success"
           /\ Get(pd_person_by_email[c.email].fields, all_orgs_field_key, <<>>)
                 = <<"Z", " ", "(", "9", ")">>
           /\ \E n \in 1..Len(crmPersons) :
                 /\ crmPersons[n].id = c.pd_person_id
                 /\ crmPersons[n].fields[all_orgs_field_key] = value

\* The keys of the organizations of the snapshot.
SnapshotKeys == {OrgKey(pd_orgs[i]) : i \in 1..Len(pd_orgs)}

\* The link the CRM holds now for the contact of a decision is the link of
\* the snapshot.
LinkUntouched(c) ==
    \A n \in 1..Len(crmPersons) :
        crmPersons[n].id = c.pd_person_id
            => crmPersons[n].org_id = pd_person_by_email[c.email].org_id

\* C13: every refused organization creation is in the failed list; the
\* creation of every organization absent from the snapshot has been attempted
\* all the same when sync_persons starts; and every user whose first
\* organization is a failed one, the contact's link matching none of the
\* user's organizations, is decided 'skipped (org not found)', no update for
\* it carries an org_id, and the contact's link is left as it was.
C13_OrgCreationFailure ==
    /\ \A k \in OrgPosts :
          ~calls[k].ok => \E i \in 1..Len(failed) : failed[i].name = calls[k].data[<<"name">>]
    /\ Len(failed) = Cardinality({k \in OrgPosts : ~calls[k].ok})
    /\ (Syncing /\ ~DRY_RUN) =>
          {Lower(calls[k].data[<<"name">>]) : k \in OrgPosts}
              = DOMAIN postgres_orgs \ SnapshotKeys
    /\ \A i \in BothDecisions :
          LET c == changes[i] IN
          (FirstOrgKey(c) \in FailedKeys /\ ~LinkIsAuthoritative(c))
              => /\ c.org_action = "skipped (org not found)"
                 /\ \A k \in PutCalls :
                       calls[k].for = c.email => <<"org_id">> \notin DOMAIN calls[k].data
                 /\ LinkUntouched(c)

\* C13 witness: the first of two creations refused, the second one made, and
\* the update of a linked contact whose user's first organization is the
\* refused one sent without an org_id.
C13_Witness ==
    /\ pc = "done"
    /\ Len(failed) = 1
    /\ Len(created) = 1
    /\ \E j, k \in OrgPosts : j < k /\ ~calls[j].ok /\ calls[k].ok
    /\ \E i \in BothDecisions :
          /\ FirstOrgKey(changes[i]) \in FailedKeys
          /\ changes[i].org_action = "skipped (org not found)"
          /\ changes[i].current_org # NoName
          /\ \E k \in PutCalls : calls[k].for = changes[i].email /\ calls[k].ok

\* C14: a fetch none of whose pages reported a failure returns the whole
\* collection, in the order the service lists it: the organizations and the
\* persons of fetch_all_paginated, the people of fetch_all_people; the fetch
\* of an empty collection returns the empty list.
C14_PaginationComplete ==
    /\ (pc = "fetch_persons" /\ start = 0 /\ ~fetchFailed) => pd_orgs = crmOrgs
    /\ (pc = "build" /\ ~fetchFailed) => pd_persons = crmPersons
    /\ (epc = "index" /\ ~fetchFailed) => people = crmPersons

\* The decisions of the tagging pass.
TagDecisions == {i \in 1..Len(changes) : changes[i].org_action = "tagged_not_in_db"}

\* C15: in a live run, for a contact the tagging pass visits whose status
\* field holds 'not in db' in the snapshot, no update is sent and the
\* decision is recorded 'skipped'.
C15_TaggingIdempotent ==
    ~DRY_RUN =>
        \A i \in TagDecisions :
            StatusOf(pd_person_by_email[changes[i].email]) = NotInDb
                => /\ changes[i].status = "skipped"
                   /\ \A k \in PutCalls : calls[k].for # changes[i].email

\* The first of the emails of a person whose normalized value is not empty
\* (the empty sequence: the person has none).
CanonicalKey(person) ==
    LET full == {j \in 1..Len(person.email) : Strip(Lower(person.email[j].value)) # <<>>} IN
    IF full = {} THEN <<>>
    ELSE Strip(Lower(person.email[CHOOSE j \in full : \A k \in full : j <= k].value))

\* Every key under which the index holds a contact is that contact's
\* canonical key.
UnderCanonicalKey(index) ==
    \A e \in DOMAIN index : e = CanonicalKey(index[e])

\* C16: the contact-by-email index holds a contact under one key only, the
\* first of its emails whose normalized value is not empty: the index of
\* load_pipedrive_data and the index of build_email_index.
C16_CanonicalIdentity ==
    /\ pc \in {"fields", "create_orgs", "create_loop", "sync_loop", "done"}
          => UnderCanonicalKey(pd_person_by_email)
    /\ epc \in {"loop", "done"} => UnderCanonicalKey(email_index)

\* The organization of the snapshot listed last under a key.
SnapshotOrg(key) == pd_orgs[Max({i \in 1..Len(pd_orgs) : OrgKey(pd_orgs[i]) = key})]

\* What the inputs of a run (the export and the snapshot) make of the link of
\* the contact of a decision when every organization absent from the snapshot
\* is there to resolve: kept, or the user's first organization.
Resolution(c) ==
    IF LinkIsAuthoritative(c)
    THEN [org_action |-> "kept", new_org |-> c.current_org]
    ELSE [org_action |-> "updated",
          new_org |-> IF FirstOrgKey(c) \in SnapshotKeys
                      THEN SnapshotOrg(FirstOrgKey(c)).name
                      ELSE postgres_orgs[FirstOrgKey(c)].name]

\* C17: in a dry run every organization absent from the snapshot is in the
\* index when sync_persons starts, under an id that is not None and is the id
\* of no organization of the snapshot; and the decisions of a dry run resolve
\* the link as those of a live run whose creations all succeeded do: kept or
\* 'updated' to the user's first organization, never 'skipped (org not
\* found)'.
C17_DryRunPlaceholders ==
    /\ (Syncing /\ DRY_RUN) =>
          \A key \in DOMAIN postgres_orgs \ SnapshotKeys :
              /\ key \in DOMAIN pd_org_by_name
              /\ pd_org_by_name[key].id # 0
              /\ pd_org_by_name[key].id \notin {pd_orgs[i].id : i \in 1..Len(pd_orgs)}
              /\ pd_org_by_name[key].name = postgres_orgs[key].name
    /\ (DRY_RUN \/ failed = <<>>) =>
          \A i \in BothDecisions :
              /\ changes[i].org_action = Resolution(changes[i]).org_action
              /\ changes[i].new_org = Resolution(changes[i]).new_org

\* C17 witness: a dry run that simulated two creations and decided to link a
\* contact to one of the two, sending nothing.
C17_Witness ==
    /\ pc = "done"
    /\ DRY_RUN
    /\ Len(created) = 2
    /\ calls = <<>>
    /\ \E i \in BothDecisions :
          /\ FirstOrgKey(changes[i]) \notin SnapshotKeys
          /\ changes[i].org_action = "updated"
          /\ changes[i].status = "dry_run"
          /\ changes[i].new_org = postgres_orgs[FirstOrgKey(changes[i])].name

Matched == <<"matched">>

\* C18: every update sent for an identity of both sources sets the status
\* field to 'matched'; and in a live run that resolved the status field, a
\* contact of both sources whose status in the snapshot is not 'matched' is
\* sent an update.
C18_StatusMatched ==
    /\ \A k \in PutCalls :
          calls[k].for \in DOMAIN postgres_users
              => /\ db_status_field_key \in DOMAIN calls[k].data
                 /\ calls[k].data[db_status_field_key] = Matched
    /\ (~DRY_RUN /\ db_status_field_key # NoKey) =>
          \A i \in BothDecisions :
              StatusOf(pd_person_by_email[changes[i].email]) # Matched
                  => \E k \in PutCalls : calls[k].for = changes[i].email

\* get_or_create_custom_fields has returned without the key of a field it
\* could neither find nor create.
SchemaFailed ==
    /\ pc \in {"create_orgs", "create_loop", "sync_loop", "done"}
    /\ all_orgs_field_key = NoKey \/ db_status_field_key = NoKey

\* C19: a run that could not resolve a required field, or the label option,
\* goes no further: it issues no organization create, no contact create and
\* no contact update, and decides nothing.
C19_SchemaFailureFatal ==
    /\ SchemaFailed =>
          /\ \A k \in 1..Len(calls) : calls[k].endpoint = "personFields"
          /\ changes = <<>>
    /\ epc = "raised" => calls = <<>>

\* C20: every decision of a live run has the outcome 'success', 'failed' or
\* 'skipped'; none is left 'pending'.
C20_NoPendingOutcome ==
    ~DRY_RUN =>
        \A i \in 1..Len(changes) : changes[i].status \in {"success", "failed", "skipped"}

\* The index holds under every key of the snapshot the organization the
\* snapshot lists last under it.
SnapshotEntriesKept ==
    \A key \in SnapshotKeys :
        key \in DOMAIN pd_org_by_name /\ pd_org_by_name[key] = SnapshotOrg(key)

\* Every create is for an organization of the export whose lowercased name
\* is no key of the snapshot, and no two are for the same lowercased name.
CreatesOnlyMissing ==
    \A k \in OrgPosts :
        /\ Lower(calls[k].data[<<"name">>]) \in DOMAIN postgres_orgs \ SnapshotKeys
        /\ \A j \in OrgPosts :
              Lower(calls[j].data[<<"name">>]) = Lower(calls[k].data[<<"name">>]) => j = k

\* A step of the pass removes no entry of the index and changes none.
IndexEntriesKept ==
    pc \in {"create_orgs", "create_loop"} =>
        \A key \in DOMAIN pd_org_by_name :
            key \in DOMAIN pd_org_by_name' /\ pd_org_by_name'[key] = pd_org_by_name[key]

\* C21: every create of create_missing_orgs is for an organization of the
\* export whose lowercased name is no key of the index as the snapshot built
\* it, no two creates are for the same lowercased name, and no step of the
\* pass removes or changes an entry the index holds; once the pass has ended
\* the index holds the snapshot's entries and, besides them, exactly the keys
\* of the organizations created or simulated.
C21_CreateOnlyMissing ==
    /\ []CreatesOnlyMissing
    /\ [](pc \in {"create_orgs", "create_loop", "sync_loop", "done"} => SnapshotEntriesKept)
    /\ [](Syncing => DOMAIN pd_org_by_name = SnapshotKeys \cup CreatedKeys)
    /\ [][IndexEntriesKept]_vars

\* C21 witness: a live run whose export names an organization the snapshot
\* holds and one it lacks: one create, for the second, and the first one's
\* entry as the snapshot listed it.
C21_Witness ==
    /\ pc = "done"
    /\ ~DRY_RUN
    /\ Cardinality(DOMAIN postgres_orgs) = 2
    /\ Cardinality(DOMAIN postgres_orgs \cap SnapshotKeys) = 1
    /\ Cardinality(OrgPosts) = 1
    /\ Len(created) = 1
    /\ \A key \in DOMAIN postgres_orgs \cap SnapshotKeys :
          pd_org_by_name[key].id \in {crmOrgs[i].id : i \in 1..Len(pd_orgs)}


\* C22: every user load_postgres_data returns has an organization list that
\* is not empty and holds no organization id twice, so the list has a first
\* organization for sync_persons to read for every contact it matches.
C22_UserOrgsNonEmptyDistinct ==
    Loaded =>
        /\ \A email \in DOMAIN postgres_users :
              LET orgs == postgres_users[email].orgs IN
              /\ orgs # <<>>
              /\ \A i, j \in 1..Len(orgs) : orgs[i].id = orgs[j].id => i = j
        /\ \A i \in BothDecisions : 1 \in DOMAIN postgres_users[changes[i].email].orgs

\* C22 witness: a run has ended whose export of two rows gives one user two
\* organizations of different ids, and the contact of that user was linked to
\* the first organization of the list.
C22_Witness ==
    /\ pc = "done"
    /\ \E i \in BothDecisions :
          LET orgs == postgres_users[changes[i].email].orgs IN
          /\ Len(orgs) = 2
          /\ Len(csv) = 2
          /\ orgs[1].id # orgs[2].id
          /\ changes[i].org_action = "updated"
          /\ changes[i].new_org = orgs[1].name

====
